---- MODULE Spec2Model ----
(***************************************************************************)
(* State-machine model of the YouTube companion backend                    *)
(* (src/backend/app/app.py, youtube_api.py, models.py).                    *)
(*                                                                         *)
(* Every HTTP request is a task in one of the slots of Reqs.  A handler is *)
(* cut into one action per round trip it makes (a database query or        *)
(* commit, a call of the OAuth provider or of the YouTube Data API), so    *)
(* that requests interleave at exactly the points where the code waits.    *)
(* The remote platform and the database are the environment: a remote call *)
(* and a commit each either succeed or raise.                              *)
(***************************************************************************)
EXTENDS Naturals, Sequences, FiniteSets

\* ---------------------------------------------------------------- bounds
NReq == 2           \* request slots: requests in flight at the same time
MaxOps == 3         \* requests accepted in one behaviour

\* ------------------------------------------------------ small input sets
Reqs == 1..NReq
Tokens == {"t1", "t2"}                  \* access tokens the provider issues
NoneVal == "None"                       \* Python's None in a string column
Videos == {"v1", "v2"}                  \* video ids a client may name
Titles == {"T1", "T2"}                  \* titles a client may send
Categories == {"c1", "c2"}              \* snippet.categoryId values
ParentIds == {NoneVal, "", "p1"}        \* CommentCreate.parent_id values
YtIds == <<"y1", "y2", "y3", "y4", "y5">>   \* ids the platform hands out, in order

NoHeader == [scheme |-> "", cred |-> ""]
Headers == {NoHeader, [scheme |-> "Basic ", cred |-> "t1"]}
             \cup {[scheme |-> "Bearer ", cred |-> t] : t \in Tokens}

NoSnippet == [title |-> "", description |-> "", categoryId |-> ""]

\* No row of notes (the result of .first() on an empty query).
NoNote == [id |-> 0, video_id |-> "", title |-> NoneVal, content |-> NoneVal,
           tags |-> <<>>, created_at |-> 0]

VARIABLES
    user_sessions,  \* table user_sessions: set of rows
    comments,       \* table comments (the mirror): set of rows
    notes,          \* table notes: set of rows
    logs,           \* table logs: sequence of actions, oldest first
    sessSeq,        \* last id handed out by user_sessions.id
    commentSeq,     \* last id handed out by comments.id
    noteSeq,        \* last id handed out by notes.id
    ytVideo,        \* remote platform: video id -> snippet (absent: NoSnippet)
    ytComments,     \* remote platform: ids of the comments that exist
    ytDeleted,      \* remote platform: ids this backend has deleted
    ytSeq,          \* remote platform: number of comment ids handed out
    req,            \* request slot -> the task running in it
    started         \* requests accepted so far

vars == <<user_sessions, comments, notes, logs, sessSeq, commentSeq, noteSeq,
          ytVideo, ytComments, ytDeleted, ytSeq, req, started>>

db == <<user_sessions, comments, notes, logs, sessSeq, commentSeq, noteSeq>>
remote == <<ytVideo, ytComments, ytDeleted, ytSeq>>

\* ------------------------------------------------------------- requests
Idle ==
    [op |-> "idle", pc |-> "idle", header |-> NoHeader, code |-> NoneVal,
     token |-> "", vid |-> "", parent |-> NoneVal, cid |-> 0,
     title |-> "", desc |-> "", snip |-> NoSnippet, ytid |-> "", found |-> 0,
     act |-> "", ret |-> 0, status |-> 0, calls |-> <<>>, sq |-> 0,
     writes |-> 0, rev |-> "", creds |-> "",
     key |-> "", cur |-> <<>>, raw |-> <<>>, out |-> <<>>,
     nid |-> 0, search |-> NoneVal, tag |-> <<>>, tags |-> <<>>, rows |-> <<>>,
     note |-> NoNote]

Free(r) == req[r].pc \in {"idle", "done"} /\ started < MaxOps

Call(api, arg) == [api |-> api, arg |-> arg]

\* The response is sent: the task ends with an HTTP status.
Respond(rec, st) == [rec EXCEPT !.pc = "done", !.status = st]

\* ---------------------------------------------------------------- helpers
\* app.py get_token_from_header: "" stands for the 401 it raises.
get_token_from_header(h) ==
    IF h = NoHeader \/ h.scheme # "Bearer " THEN "" ELSE h.cred

\* Mutant: any header that is present is let through.
HeaderPresent(h) == h # NoHeader

\* get_token_from_header, line 63: the header is there and starts with "Bearer ".
HeaderOk(h) == ~(h = NoHeader \/ h.scheme # "Bearer ")

\* creds.refresh_token: the provider hands one out with t1 and none with t2.
RefreshTokenOf(t) == IF t = "t1" THEN "r1" ELSE NoneVal

\* The query of get_youtube_from_db and of auth_callback: rows with this token.
SessionRows(t) == {s \in user_sessions : s.access_token = t}

\* Mutant: the column is not declared unique, so no INSERT is refused.
NoUniqueIndex(t) == FALSE

\* models.py: access_token is unique; an INSERT of a stored token raises.
UniqueViolation(t) == SessionRows(t) # {}

Init ==
    /\ user_sessions = {}
    /\ comments = {}
    /\ notes = {}
    /\ logs = <<>>
    /\ sessSeq = 0
    /\ commentSeq = 0
    /\ noteSeq = 0
    /\ ytVideo = [v \in Videos |->
                    IF v = "v1"
                    THEN [title |-> "T0", description |-> "D0", categoryId |-> "c1"]
                    ELSE NoSnippet]
    /\ ytComments = {}
    /\ ytDeleted = {}
    /\ ytSeq = 0
    /\ req = [r \in Reqs |-> Idle]
    /\ started = 0

\* ------------------------------------------------------------ log_event
\* Mutant: the table keeps the latest event only.
log_event_overwrite(r) ==
    /\ req[r].pc = "log"
    /\ logs' = <<req[r].act>>
    /\ req' = [req EXCEPT ![r] = Respond([req[r] EXCEPT !.writes = @ + 1], req[r].ret)]
    /\ UNCHANGED <<user_sessions, comments, notes, sessSeq, commentSeq, noteSeq,
                   remote, started>>

\* app.py log_event, the last step of every handler: one row, one commit.
log_event(r) ==
    /\ req[r].pc = "log"
    /\ \/ /\ logs' = Append(logs, req[r].act)
          /\ req' = [req EXCEPT ![r] =
                       Respond([req[r] EXCEPT !.writes = @ + 1], req[r].ret)]
       \/ /\ logs' = logs
          /\ req' = [req EXCEPT ![r] = Respond(req[r], 500)]
    /\ UNCHANGED <<user_sessions, comments, notes, sessSeq, commentSeq, noteSeq,
                   remote, started>>

ToLog(rec, action, ret) == [rec EXCEPT !.pc = "log", !.act = action, !.ret = ret]

\* -------------------------------------------------------- /auth/callback
\* The request arrives; without a code it is answered 400.
auth_callback(r) ==
    /\ Free(r)
    /\ \E code \in {NoneVal, "code"} :
         LET rec == [Idle EXCEPT !.op = "auth_callback", !.code = code] IN
         req' = [req EXCEPT ![r] =
                   IF code = NoneVal THEN Respond(rec, 400)
                   ELSE [rec EXCEPT !.pc = "cb_fetch_token"]]
    /\ started' = started + 1
    /\ UNCHANGED <<db, remote>>

\* flow.fetch_token: the provider exchanges the code for a token, or raises.
cb_fetch_token(r) ==
    /\ req[r].pc = "cb_fetch_token"
    /\ LET rec == [req[r] EXCEPT !.calls = Append(@, Call("oauth.token", req[r].code))] IN
       \/ \E t \in Tokens :
            req' = [req EXCEPT ![r] = [rec EXCEPT !.pc = "cb_find", !.token = t]]
       \/ req' = [req EXCEPT ![r] = Respond(rec, 500)]
    /\ UNCHANGED <<db, remote, started>>

\* existing = db.query(UserSession).filter(access_token == creds.token).first()
cb_find(r) ==
    /\ req[r].pc = "cb_find"
    /\ req' = [req EXCEPT ![r] =
                 IF SessionRows(req[r].token) # {}
                 THEN ToLog([req[r] EXCEPT !.sq = @ + 1, !.found = 1],
                            "GOOGLE_LOGIN_SUCCESS", 307)
                 ELSE [req[r] EXCEPT !.sq = @ + 1, !.pc = "cb_insert"]]
    /\ UNCHANGED <<db, remote, started>>

\* db.add(session); db.commit(): the unique index or the database may refuse.
cb_insert(r) ==
    /\ req[r].pc = "cb_insert"
    /\ \/ /\ ~UniqueViolation(req[r].token)
          /\ sessSeq' = sessSeq + 1
          /\ user_sessions' = user_sessions \cup
                {[id |-> sessSeq + 1, access_token |-> req[r].token,
                  refresh_token |-> RefreshTokenOf(req[r].token)]}
          /\ req' = [req EXCEPT ![r] =
                       ToLog([req[r] EXCEPT !.writes = @ + 1],
                             "GOOGLE_LOGIN_SUCCESS", 307)]
       \/ /\ UniqueViolation(req[r].token)
          /\ sessSeq' = sessSeq + 1
          /\ user_sessions' = user_sessions
          /\ req' = [req EXCEPT ![r] = Respond(req[r], 500)]
       \/ /\ UNCHANGED <<user_sessions, sessSeq>>
          /\ req' = [req EXCEPT ![r] = Respond(req[r], 500)]
    /\ UNCHANGED <<comments, notes, logs, commentSeq, noteSeq, remote, started>>

\* ---------------------------------------------------------------- /logout
logout(r) ==
    /\ Free(r)
    /\ \E h \in Headers :
         LET rec == [Idle EXCEPT !.op = "logout", !.header = h,
                                 !.token = get_token_from_header(h)] IN
         req' = [req EXCEPT ![r] =
                   IF ~HeaderOk(h) THEN Respond(rec, 401)
                   ELSE [rec EXCEPT !.pc = "lo_revoke"]]
    /\ started' = started + 1
    /\ UNCHANGED <<db, remote>>

\* requests.post(.../revoke?token=...): the response is not looked at, so a
\* 200 ("ok") and a 4xx ("rejected") both go on; only a transport error raises.
lo_revoke(r) ==
    /\ req[r].pc = "lo_revoke"
    /\ LET rec == [req[r] EXCEPT !.calls = Append(@, Call("oauth.revoke", req[r].token))] IN
       \/ \E res \in {"ok", "rejected"} :
            req' = [req EXCEPT ![r] = [rec EXCEPT !.pc = "lo_delete", !.rev = res]]
       \/ req' = [req EXCEPT ![r] = Respond([rec EXCEPT !.rev = "error"], 500)]
    /\ UNCHANGED <<db, remote, started>>

\* Mutant: the commit goes through without the delete of the session row.
lo_delete_keep(r) ==
    /\ req[r].pc = "lo_delete"
    /\ req' = [req EXCEPT ![r] = ToLog(req[r], "LOGOUT", 200)]
    /\ UNCHANGED <<db, remote, started>>

\* db.query(UserSession).filter(access_token == token).delete(); db.commit()
lo_delete(r) ==
    /\ req[r].pc = "lo_delete"
    /\ \/ /\ user_sessions' = user_sessions \ SessionRows(req[r].token)
          /\ req' = [req EXCEPT ![r] =
                       ToLog([req[r] EXCEPT !.writes = @ + Cardinality(SessionRows(req[r].token))],
                             "LOGOUT", 200)]
       \/ /\ user_sessions' = user_sessions
          /\ req' = [req EXCEPT ![r] = Respond(req[r], 500)]
    /\ UNCHANGED <<comments, notes, logs, sessSeq, commentSeq, noteSeq, remote, started>>

\* ------------------------------------------------- bearer-protected entry
\* The first lines of every handler but logout: get_token_from_header, then
\* get_youtube_from_db (one query of user_sessions; building the client makes
\* no network call).  A rejected request is answered 401.
Enter(op, h, rec, first) ==
    LET in == [rec EXCEPT !.op = op, !.header = h,
                          !.token = get_token_from_header(h)] IN
    IF ~HeaderOk(h) THEN Respond(in, 401)
    ELSE IF SessionRows(in.token) = {}
         THEN Respond([in EXCEPT !.sq = @ + 1], 401)
         ELSE [in EXCEPT !.sq = @ + 1, !.pc = first, !.creds = in.token]

\* The pcs at which a request is about to call the YouTube Data API.
ClientPcs == {"lv_remote", "gv_fetch", "um_fetch", "um_update", "gc_fetch",
              "ac_remote", "rc_remote"}

\* Mutant: the refreshed access token is written back to the session row.
refresh_persist(r) ==
    /\ req[r].pc \in ClientPcs
    /\ req[r].creds = req[r].token
    /\ RefreshTokenOf(req[r].token) # NoneVal
    /\ req' = [req EXCEPT ![r].creds = "t3"]
    /\ user_sessions' = {[s EXCEPT !.access_token = IF @ = req[r].token THEN "t3" ELSE @] :
                            s \in user_sessions}
    /\ UNCHANGED <<comments, notes, logs, sessSeq, commentSeq, noteSeq, remote, started>>

\* youtube_api.py get_youtube_client: the Credentials object holds the refresh
\* token, so the client library swaps an expired access token for a new one
\* before a call; the new token lives in the client of this request only.
refresh(r) ==
    /\ req[r].pc \in ClientPcs
    /\ req[r].creds = req[r].token
    /\ RefreshTokenOf(req[r].token) # NoneVal
    /\ req' = [req EXCEPT ![r].creds = "t3"]
    /\ UNCHANGED <<db, remote, started>>

\* ---------------------------------------------------------------- /videos
list_videos(r) ==
    /\ Free(r)
    /\ \E h \in Headers :
         req' = [req EXCEPT ![r] = Enter("list_videos", h, Idle, "lv_remote")]
    /\ started' = started + 1
    /\ UNCHANGED <<db, remote>>

ListCalls == <<Call("channels.list", "mine"), Call("playlistItems.list", "uploads"),
               Call("videos.list", "ids")>>

\* youtube_api.py list_my_videos: up to three list calls in a row; each may
\* raise, and the first two may come back empty, which ends the chain.
lv_remote(r) ==
    /\ req[r].pc = "lv_remote"
    /\ \E n \in 1..3, raised \in BOOLEAN :
         LET rec == [req[r] EXCEPT !.calls = SubSeq(ListCalls, 1, n)] IN
         req' = [req EXCEPT ![r] =
                   IF raised THEN Respond(rec, 400)
                   ELSE ToLog(rec, "VIDEOS_LISTED", 200)]
    /\ UNCHANGED <<db, remote, started>>

get_video(r) ==
    /\ Free(r)
    /\ \E h \in Headers, v \in Videos :
         req' = [req EXCEPT ![r] =
                   Enter("get_video", h, [Idle EXCEPT !.vid = v], "gv_fetch")]
    /\ started' = started + 1
    /\ UNCHANGED <<db, remote>>

\* fetch_video_details is called outside any try: what it raises is not
\* turned into a 400 and leaves the handler as a server error.
gv_fetch(r) ==
    /\ req[r].pc = "gv_fetch"
    /\ LET rec == [req[r] EXCEPT !.calls = Append(@, Call("videos.list", req[r].vid))] IN
       \/ req' = [req EXCEPT ![r] = Respond(rec, 500)]
       \/ req' = [req EXCEPT ![r] =
                    IF ytVideo[req[r].vid] = NoSnippet THEN Respond(rec, 404)
                    ELSE ToLog(rec, "VIDEO_FETCHED", 200)]
    /\ UNCHANGED <<db, remote, started>>

\* ------------------------------------------------- /videos/{id}/metadata
update_metadata(r) ==
    /\ Free(r)
    /\ \E h \in Headers, v \in Videos, t \in Titles :
         req' = [req EXCEPT ![r] =
                   Enter("update_metadata", h,
                         [Idle EXCEPT !.vid = v, !.title = t, !.desc = "D1"],
                         "um_fetch")]
    /\ started' = started + 1
    /\ UNCHANGED <<db, remote>>

\* Mutant: only the two changed fields are sent, not the fetched snippet.
MergeOnlyChanged(snippet, title, description) ==
    [NoSnippet EXCEPT !.title = title, !.description = description]

\* update_video_info, lines 97-99: the fetched snippet with the two fields set.
Merge(snippet, title, description) ==
    [snippet EXCEPT !.title = title, !.description = description]

\* update_video_info, first half: videos.list(part=snippet), then the merge.
um_fetch(r) ==
    /\ req[r].pc = "um_fetch"
    /\ LET rec == [req[r] EXCEPT !.calls = Append(@, Call("videos.list", req[r].vid))] IN
       \/ req' = [req EXCEPT ![r] = Respond(rec, 400)]
       \/ req' = [req EXCEPT ![r] =
                    IF ytVideo[req[r].vid] = NoSnippet THEN Respond(rec, 400)
                    ELSE [rec EXCEPT !.pc = "um_update",
                                     !.snip = Merge(ytVideo[req[r].vid],
                                                    req[r].title, req[r].desc)]]
    /\ UNCHANGED <<db, remote, started>>

\* update_video_info, second half: videos.update replaces the whole snippet.
um_update(r) ==
    /\ req[r].pc = "um_update"
    /\ LET rec == [req[r] EXCEPT !.calls = Append(@, Call("videos.update", req[r].vid))] IN
       \/ /\ req' = [req EXCEPT ![r] = Respond(rec, 400)]
          /\ ytVideo' = ytVideo
       \/ /\ req' = [req EXCEPT ![r] = [rec EXCEPT !.pc = "um_find"]]
          /\ ytVideo' = [ytVideo EXCEPT ![req[r].vid] = req[r].snip]
    /\ UNCHANGED <<db, ytComments, ytDeleted, ytSeq, started>>

NotesOf(v) == {n \in notes : n.video_id = v}

\* note = db.query(Note).filter(video_id == video_id).first(): any one row.
um_find(r) ==
    /\ req[r].pc = "um_find"
    /\ \/ /\ NotesOf(req[r].vid) = {}
          /\ req' = [req EXCEPT ![r] = [req[r] EXCEPT !.pc = "um_commit", !.found = 0]]
       \/ \E n \in NotesOf(req[r].vid) :
            req' = [req EXCEPT ![r] =
                      [req[r] EXCEPT !.pc = "um_commit", !.found = n.id, !.note = n]]
    /\ UNCHANGED <<db, remote, started>>

\* if not note: db.add(Note(video_id)); note.title = body.title; db.commit()
\* The UPDATE carries the title only when it differs from the one loaded.
um_commit(r) ==
    /\ req[r].pc = "um_commit"
    /\ \/ /\ req[r].found = 0
          /\ noteSeq' = noteSeq + 1
          /\ notes' = notes \cup
                {[id |-> noteSeq + 1, video_id |-> req[r].vid, title |-> req[r].title,
                  content |-> NoneVal, tags |-> <<>>, created_at |-> noteSeq + 1]}
          /\ req' = [req EXCEPT ![r] =
                       ToLog([req[r] EXCEPT !.writes = @ + 1],
                             "VIDEO_METADATA_UPDATED", 200)]
       \/ /\ req[r].found # 0
          /\ \E n \in notes :
               /\ n.id = req[r].found
               /\ notes' = (notes \ {n}) \cup
                     {IF req[r].title = req[r].note.title THEN n
                      ELSE [n EXCEPT !.title = req[r].title]}
          /\ noteSeq' = noteSeq
          /\ req' = [req EXCEPT ![r] =
                       ToLog([req[r] EXCEPT !.writes = @ + 1, !.note = NoNote],
                             "VIDEO_METADATA_UPDATED", 200)]
       \/ /\ UNCHANGED <<notes, noteSeq>>
          /\ req' = [req EXCEPT ![r] = Respond([req[r] EXCEPT !.note = NoNote], 500)]
    /\ UNCHANGED <<user_sessions, comments, logs, sessSeq, commentSeq, remote, started>>

\* Another writer (the owner in YouTube Studio, another client) edits the video.
ExternalEdit ==
    /\ \E v \in Videos, c \in Categories :
         /\ ytVideo[v] # NoSnippet
         /\ ytVideo[v].categoryId # c
         /\ ytVideo' = [ytVideo EXCEPT ![v].categoryId = c]
    /\ UNCHANGED <<db, ytComments, ytDeleted, ytSeq, req, started>>

\* ------------------------------------------------ /videos/{id}/comments
get_comments(r) ==
    /\ Free(r)
    /\ \E h \in Headers :
         req' = [req EXCEPT ![r] =
                   Enter("get_comments", h, [Idle EXCEPT !.vid = "v1"], "gc_fetch")]
    /\ started' = started + 1
    /\ UNCHANGED <<db, remote>>

\* Mutant: the fetched comments are cached in the mirror table.
gc_fetch_cache(r) ==
    /\ req[r].pc = "gc_fetch"
    /\ commentSeq' = commentSeq + 1
    /\ comments' = comments \cup
          {[id |-> commentSeq + 1, video_id |-> req[r].vid, youtube_comment_id |-> "",
            parent_youtube_id |-> NoneVal, text |-> "hi"]}
    /\ req' = [req EXCEPT ![r] =
                 ToLog([req[r] EXCEPT !.calls = Append(@, Call("commentThreads.list", req[r].vid)),
                                      !.writes = @ + 1], "COMMENTS_FETCHED", 200)]
    /\ UNCHANGED <<user_sessions, notes, logs, sessSeq, noteSeq, remote, started>>

\* fetch_video_comments: commentThreads.list, or the call raises.
gc_fetch(r) ==
    /\ req[r].pc = "gc_fetch"
    /\ LET rec == [req[r] EXCEPT !.calls = Append(@, Call("commentThreads.list", req[r].vid))] IN
       \/ req' = [req EXCEPT ![r] = Respond(rec, 400)]
       \/ req' = [req EXCEPT ![r] = ToLog(rec, "COMMENTS_FETCHED", 200)]
    /\ UNCHANGED <<db, remote, started>>

add_comment(r) ==
    /\ Free(r)
    /\ \E h \in Headers, p \in ParentIds :
         req' = [req EXCEPT ![r] =
                   Enter("add_comment", h, [Idle EXCEPT !.vid = "v1", !.parent = p],
                         "ac_remote")]
    /\ started' = started + 1
    /\ UNCHANGED <<db, remote>>

\* Python's truth value of body.parent_id: None and "" are both false.
Truthy(p) == p # NoneVal /\ p # ""

\* Mutant: the mirror row is written before the platform is called, so a
\* refused call leaves it behind.
ac_remote_mirror_first(r) ==
    /\ req[r].pc = "ac_remote"
    /\ commentSeq' = commentSeq + 1
    /\ comments' = comments \cup
          {[id |-> commentSeq + 1, video_id |-> req[r].vid, youtube_comment_id |-> "",
            parent_youtube_id |-> req[r].parent, text |-> "hi"]}
    /\ req' = [req EXCEPT ![r] =
                 Respond([req[r] EXCEPT !.calls = Append(@, Call("commentThreads.insert", req[r].vid)),
                                        !.writes = @ + 1], 400)]
    /\ UNCHANGED <<user_sessions, notes, logs, sessSeq, noteSeq, remote, started>>

\* reply_to_comment (comments.insert) or post_comment (commentThreads.insert):
\* the platform creates the comment and returns its id, or the call raises.
ac_remote(r) ==
    /\ req[r].pc = "ac_remote"
    /\ LET rec == [req[r] EXCEPT !.calls = Append(@,
                      IF Truthy(req[r].parent)
                      THEN Call("comments.insert", req[r].parent)
                      ELSE Call("commentThreads.insert", req[r].vid))] IN
       \/ /\ req' = [req EXCEPT ![r] = Respond(rec, 400)]
          /\ UNCHANGED <<ytComments, ytSeq>>
       \/ /\ ytSeq < Len(YtIds)
          /\ ytSeq' = ytSeq + 1
          /\ ytComments' = ytComments \cup {YtIds[ytSeq + 1]}
          /\ req' = [req EXCEPT ![r] =
                       [rec EXCEPT !.pc = "ac_insert", !.ytid = YtIds[ytSeq + 1]]]
    /\ UNCHANGED <<db, ytVideo, ytDeleted, started>>

\* db.add(Comment(...)); db.commit(); db.refresh(): one row, or the commit raises
\* (youtube_comment_id is unique).
ac_insert(r) ==
    /\ req[r].pc = "ac_insert"
    /\ \/ /\ \A c \in comments : c.youtube_comment_id # req[r].ytid
          /\ commentSeq' = commentSeq + 1
          /\ comments' = comments \cup
               {[id |-> commentSeq + 1, video_id |-> req[r].vid,
                 youtube_comment_id |-> req[r].ytid,
                 parent_youtube_id |-> req[r].parent, text |-> "hi"]}
          /\ req' = [req EXCEPT ![r] =
                       ToLog([req[r] EXCEPT !.writes = @ + 1, !.found = commentSeq + 1],
                             IF Truthy(req[r].parent) THEN "REPLY_POSTED"
                             ELSE "COMMENT_POSTED", 200)]
       \/ /\ UNCHANGED <<comments, commentSeq>>
          /\ req' = [req EXCEPT ![r] = Respond(req[r], 500)]
    /\ UNCHANGED <<user_sessions, notes, logs, sessSeq, noteSeq, remote, started>>

\* ------------------------------------------------- /comments/{comment_id}
CommentIds == 1..2

remove_comment(r) ==
    /\ Free(r)
    /\ \E h \in Headers, id \in CommentIds :
         req' = [req EXCEPT ![r] =
                   Enter("remove_comment", h, [Idle EXCEPT !.cid = id], "rc_find")]
    /\ started' = started + 1
    /\ UNCHANGED <<db, remote>>

CommentRows(id) == {c \in comments : c.id = id}

\* Mutant: no lookup of the mirror row; the path id is taken for the remote one.
rc_find_untracked(r) ==
    /\ req[r].pc = "rc_find"
    /\ req' = [req EXCEPT ![r] =
                 [req[r] EXCEPT !.pc = "rc_remote", !.found = req[r].cid,
                                !.ytid = YtIds[req[r].cid]]]
    /\ UNCHANGED <<db, remote, started>>

\* comment = db.query(Comment).filter(id == comment_id).first(); 404 if none.
rc_find(r) ==
    /\ req[r].pc = "rc_find"
    /\ \/ /\ CommentRows(req[r].cid) = {}
          /\ req' = [req EXCEPT ![r] = Respond(req[r], 404)]
       \/ \E c \in CommentRows(req[r].cid) :
            req' = [req EXCEPT ![r] =
                      [req[r] EXCEPT !.pc = "rc_remote", !.found = c.id,
                                     !.ytid = c.youtube_comment_id]]
    /\ UNCHANGED <<db, remote, started>>

\* delete_comment: comments.delete(id); the platform refuses an id it does not
\* hold, and any call may raise.
rc_remote(r) ==
    /\ req[r].pc = "rc_remote"
    /\ LET rec == [req[r] EXCEPT !.calls = Append(@, Call("comments.delete", req[r].ytid))] IN
       \/ /\ req' = [req EXCEPT ![r] = Respond(rec, 400)]
          /\ UNCHANGED <<ytComments, ytDeleted>>
       \/ /\ req[r].ytid \in ytComments
          /\ ytComments' = ytComments \ {req[r].ytid}
          /\ ytDeleted' = ytDeleted \cup {req[r].ytid}
          /\ req' = [req EXCEPT ![r] = [rec EXCEPT !.pc = "rc_delete"]]
    /\ UNCHANGED <<db, ytVideo, ytSeq, started>>

\* Mutant: the commit goes through without the db.delete(comment).
rc_delete_keep(r) ==
    /\ req[r].pc = "rc_delete"
    /\ req' = [req EXCEPT ![r] = ToLog(req[r], "COMMENT_DELETED", 200)]
    /\ UNCHANGED <<db, remote, started>>

\* db.delete(comment); db.commit()
rc_delete(r) ==
    /\ req[r].pc = "rc_delete"
    /\ \/ /\ comments' = comments \ CommentRows(req[r].found)
          /\ req' = [req EXCEPT ![r] =
                       ToLog([req[r] EXCEPT !.writes = @ + Cardinality(CommentRows(req[r].found))],
                             "COMMENT_DELETED", 200)]
       \/ /\ comments' = comments
          /\ req' = [req EXCEPT ![r] = Respond(req[r], 500)]
    /\ UNCHANGED <<user_sessions, notes, logs, sessSeq, commentSeq, noteSeq, remote, started>>

\* ------------------------------------------------------------ strings
\* A Python str is the sequence of its characters; a literal of the source
\* that is never taken apart is kept as one symbol.
Chars == {"a", " ", "|"}
MaxRaw == 5         \* longest completion text the model answers with

RECURSIVE lstrip(_)
lstrip(s) == IF s # <<>> /\ Head(s) = " " THEN lstrip(Tail(s)) ELSE s

RECURSIVE rstrip(_)
rstrip(s) ==
    IF s # <<>> /\ s[Len(s)] = " " THEN rstrip(SubSeq(s, 1, Len(s) - 1)) ELSE s

\* str.strip(): the whitespace at both ends goes.
strip(s) == rstrip(lstrip(s))

\* str.split(sep): the pieces between the separators, empty pieces included.
RECURSIVE split(_, _)
split(s, sep) ==
    IF \A i \in 1..Len(s) : s[i] # sep THEN <<s>>
    ELSE LET i == CHOOSE k \in 1..Len(s) :
                     s[k] = sep /\ \A j \in 1..(k - 1) : s[j] # sep IN
         <<SubSeq(s, 1, i - 1)>> \o split(SubSeq(s, i + 1, Len(s)), sep)

\* s[:n]
Prefix(s, n) == SubSeq(s, 1, IF Len(s) < n THEN Len(s) ELSE n)

\* ---------------------------------------------------------------- notes
\* Tags are strings taken apart character by character.
TagF == <<"F">>
TagFBlank == <<"f", " ">>
TagFF == <<"f", "f">>
TagG == <<"g">>

\* NoteCreate.tags / NoteUpdate.tags: lists of tags.
TagLists == {<<>>, <<TagF>>, <<TagFBlank>>, <<TagFF>>, <<TagG, <<"f">>>>, << <<>> >>}

\* The tag list for the runs where the notes are one resource of many.
SomeTagLists == {<<TagF>>}

\* NoteUpdate.tags left out of the body (None).
NoTagsGiven == << <<NoneVal>> >>

\* ?tag= left out of the query (None).
NoTag == <<NoneVal>>

\* ?tag= values: left out, empty, and some tags.
TagParams == {NoTag, <<>>, <<"f">>, <<" ", "F">>, <<" ">>, TagFF}
SomeTagParams == {<<"f">>}

\* ?search= values; "" and None are both false.
Searches == {NoneVal, "t1"}

NoteTitles == {NoneVal, "T1"}
NoteIds == 1..2

\* The characters of the strings that are searched or searched for.
Spell(s) ==
    CASE s = "T0" -> <<"T", "0">>
      [] s = "T1" -> <<"T", "1">>
      [] s = "T2" -> <<"T", "2">>
      [] s = "t1" -> <<"t", "1">>
      [] s = "c" -> <<"c">>
      [] OTHER -> <<>>

\* str.lower(), character by character.
lower(s) == [i \in 1..Len(s) |-> IF s[i] = "F" THEN "f" ELSE IF s[i] = "T" THEN "t" ELSE s[i]]

\* column.ilike("%search%"): NULL never matches; case is ignored.
ilike(col, search) ==
    /\ col # NoneVal
    /\ LET hay == lower(Spell(col))
           needle == lower(Spell(search)) IN
       \E i \in 1..(Len(hay) + 1) :
           /\ i + Len(needle) - 1 <= Len(hay)
           /\ SubSeq(hay, i, i + Len(needle) - 1) = needle

\* ORDER BY created_at DESC over a set of rows.
RECURSIVE OrderDesc(_)
OrderDesc(rows) ==
    IF rows = {} THEN <<>>
    ELSE LET latest == CHOOSE n \in rows : \A m \in rows : m.created_at <= n.created_at IN
         <<latest>> \o OrderDesc(rows \ {latest})

\* Mutant: the tag is compared as it was sent, case and blanks included.
TagMatchesVerbatim(note_tags, tag) == \E i \in 1..Len(note_tags) : note_tags[i] = tag

\* get_notes, lines 385-388: any(t.strip().lower() == tag_lower for t in tags)
TagMatches(note_tags, tag) ==
    LET tag_lower == lower(strip(tag)) IN
    \E i \in 1..Len(note_tags) : lower(strip(note_tags[i])) = tag_lower

\* get_notes: one query (video, optional search, newest first), then the tag
\* filter in Python when a non-empty tag is given.
get_notes(r, tagParams) ==
    /\ Free(r)
    /\ \E v \in Videos, search \in Searches, tag \in tagParams :
         LET query == {n \in NotesOf(v) :
                          search \notin {NoneVal, ""} =>
                              ilike(n.content, search) \/ ilike(n.title, search)}
             all == OrderDesc(query)
             result == IF tag \in {NoTag, <<>>} THEN all
                       ELSE SelectSeq(all, LAMBDA n : TagMatches(n.tags, tag)) IN
         req' = [req EXCEPT ![r] =
                   Respond([Idle EXCEPT !.op = "get_notes", !.vid = v, !.search = search,
                                        !.tag = tag, !.sq = 1, !.rows = result], 200)]
    /\ started' = started + 1
    /\ UNCHANGED <<db, remote>>

\* create_note: the row is added and committed (or the commit raises).
create_note(r, tagLists) ==
    /\ Free(r)
    /\ \E v \in Videos, title \in NoteTitles, tags \in tagLists :
         LET rec == [Idle EXCEPT !.op = "create_note", !.vid = v, !.title = title,
                                 !.tags = tags] IN
         \/ /\ noteSeq' = noteSeq + 1
            /\ notes' = notes \cup
                  {[id |-> noteSeq + 1, video_id |-> v, title |-> title, content |-> "c",
                    tags |-> tags, created_at |-> noteSeq + 1]}
            /\ req' = [req EXCEPT ![r] =
                         ToLog([rec EXCEPT !.writes = 1, !.nid = noteSeq + 1],
                               "NOTE_CREATED", 200)]
         \/ /\ UNCHANGED <<notes, noteSeq>>
            /\ req' = [req EXCEPT ![r] = Respond(rec, 500)]
    /\ started' = started + 1
    /\ UNCHANGED <<user_sessions, comments, logs, sessSeq, commentSeq, remote>>

NoteRows(id) == {n \in notes : n.id = id}

\* update_note, lines 422-424: the row is loaded, or the answer is 404.
update_note(r, tagLists) ==
    /\ Free(r)
    /\ \E id \in NoteIds, title \in NoteTitles, tags \in tagLists \cup {NoTagsGiven} :
         LET rec == [Idle EXCEPT !.op = "update_note", !.nid = id, !.title = title,
                                 !.tags = tags, !.sq = 1] IN
         \/ /\ NoteRows(id) = {}
            /\ req' = [req EXCEPT ![r] = Respond(rec, 404)]
         \/ \E n \in NoteRows(id) :
              req' = [req EXCEPT ![r] = [rec EXCEPT !.pc = "un_commit", !.note = n]]
    /\ started' = started + 1
    /\ UNCHANGED <<db, remote>>

\* update_note, lines 426-434: the attributes that differ from the loaded row
\* are written to the row of that id; the UPDATE of a row that is gone, the
\* refresh of one, and the commit may raise.
un_commit(r) ==
    /\ req[r].pc = "un_commit"
    /\ \/ \E n \in NoteRows(req[r].nid) :
            LET t == IF req[r].title # NoneVal /\ req[r].title # req[r].note.title
                     THEN req[r].title ELSE n.title
                g == IF req[r].tags # NoTagsGiven /\ req[r].tags # req[r].note.tags
                     THEN req[r].tags ELSE n.tags IN
            /\ notes' = (notes \ {n}) \cup {[n EXCEPT !.title = t, !.tags = g]}
            /\ req' = [req EXCEPT ![r] =
                         ToLog([req[r] EXCEPT !.writes = 1, !.note = NoNote],
                               "NOTE_UPDATED", 200)]
       \/ /\ notes' = notes
          /\ req' = [req EXCEPT ![r] = Respond([req[r] EXCEPT !.note = NoNote], 500)]
    /\ UNCHANGED <<user_sessions, comments, logs, sessSeq, commentSeq, noteSeq,
                   remote, started>>

\* delete_note, lines 446-448: the row is loaded, or the answer is 404.
delete_note(r) ==
    /\ Free(r)
    /\ \E id \in NoteIds :
         LET rec == [Idle EXCEPT !.op = "delete_note", !.nid = id, !.sq = 1] IN
         req' = [req EXCEPT ![r] =
                   IF NoteRows(id) = {} THEN Respond(rec, 404)
                   ELSE [rec EXCEPT !.pc = "dn_commit"]]
    /\ started' = started + 1
    /\ UNCHANGED <<db, remote>>

\* Mutant: the event is written in the transaction of the delete, so it is
\* there before the delete is committed and stays when the request goes on.
dn_commit_audit_first(r) ==
    /\ req[r].pc = "dn_commit"
    /\ logs' = Append(logs, "NOTE_DELETED")
    /\ notes' = notes \ NoteRows(req[r].nid)
    /\ req' = [req EXCEPT ![r] = ToLog([req[r] EXCEPT !.writes = 2], "NOTE_DELETED", 200)]
    /\ UNCHANGED <<user_sessions, comments, sessSeq, commentSeq, noteSeq, remote, started>>

\* db.delete(note); db.commit()
dn_commit(r) ==
    /\ req[r].pc = "dn_commit"
    /\ \/ /\ notes' = notes \ NoteRows(req[r].nid)
          /\ req' = [req EXCEPT ![r] =
                       ToLog([req[r] EXCEPT !.writes = Cardinality(NoteRows(req[r].nid))],
                             "NOTE_DELETED", 200)]
       \/ /\ notes' = notes
          /\ req' = [req EXCEPT ![r] = Respond(req[r], 500)]
    /\ UNCHANGED <<user_sessions, comments, logs, sessSeq, commentSeq, noteSeq,
                   remote, started>>

\* ------------------------------------------------------- /logs, /comments/local
\* get_logs: the newest `limit` rows are read; nothing is written.
get_logs(r) ==
    /\ Free(r)
    /\ \E limit \in {1, 50} :
         req' = [req EXCEPT ![r] =
                   Respond([Idle EXCEPT !.op = "get_logs", !.sq = 1,
                                        !.found = IF Len(logs) < limit THEN Len(logs)
                                                  ELSE limit], 200)]
    /\ started' = started + 1
    /\ UNCHANGED <<db, remote>>

\* get_local_comments: the mirror rows of one video are read.
get_local_comments(r) ==
    /\ Free(r)
    /\ \E v \in Videos :
         req' = [req EXCEPT ![r] =
                   Respond([Idle EXCEPT !.op = "get_local_comments", !.vid = v, !.sq = 1,
                              !.found = Cardinality({c \in comments : c.video_id = v})],
                           200)]
    /\ started' = started + 1
    /\ UNCHANGED <<db, remote>>

\* ------------------------------------------- /videos/{id}/suggestions (AI)
\* data.get("title", "YouTube Video")
AiTitles == {<<"X">>, <<"YouTube Video">>}

\* What the completion call raises: timeout, non-2xx status, malformed body.
AiErrors == {<<"ReadTimeout">>, <<"429 Too Many Requests">>, <<"KeyError: 'choices'">>}

\* Completion texts: every string over Chars of at most MaxRaw characters.
RECURSIVE StringsUpTo(_)
StringsUpTo(n) ==
    IF n = 0 THEN {<<>>}
    ELSE LET shorter == StringsUpTo(n - 1) IN
         shorter \cup {Append(s, c) : s \in {t \in shorter : Len(t) = n - 1}, c \in Chars}

RawTexts == StringsUpTo(MaxRaw)

\* The completion text for the runs where the adapter is one endpoint of many.
SomeTexts == {<<"a", "|", " ", "a", "|", "a">>}

\* ai_service.py, lines 16-20.
MissingKeyTitles ==
    << <<"Error: GROQ_API_KEY is missing from .env">>,
       <<"Get a free key at console.groq.com">>,
       <<"Then restart the server">> >>

\* ai_service.py, lines 52-56.
FallbackTitles(current_title) ==
    << <<"You Won't Believe What Happened with ">> \o current_title,
       <<"The Truth About ">> \o current_title \o <<" Nobody Tells You">>,
       <<"I Tried ">> \o current_title \o <<" for 30 Days - Here's What Happened">> >>

\* ai_service.py, lines 62-66.
ErrorTitles(e) ==
    << <<"Error: ">> \o Prefix(e, 60),
       <<"Check your GROQ_API_KEY in .env">>,
       <<"Check server logs for details">> >>

\* Mutant: the parsed candidates are returned as they are, however few.
ParseNoFallback(content, current_title) ==
    LET pieces == split(strip(content), "|") IN
    [i \in 1..(IF Len(pieces) < 3 THEN Len(pieces) ELSE 3) |-> strip(pieces[i])]

\* Mutant: the candidates are cut out but not trimmed.
ParseNoTrim(content, current_title) ==
    LET titles == split(strip(content), "|") IN
    IF Len(titles) < 3 THEN FallbackTitles(current_title) ELSE SubSeq(titles, 1, 3)

\* ai_service.py, lines 46-58: strip, split on "|", strip each, fall back or cut.
ParseTitles(content, current_title) ==
    LET raw_text == strip(content)
        pieces == split(raw_text, "|")
        titles == [i \in 1..Len(pieces) |-> strip(pieces[i])] IN
    IF Len(titles) < 3 THEN FallbackTitles(current_title) ELSE SubSeq(titles, 1, 3)

\* The request arrives; no bearer token is asked for.
get_ai_suggestions(r) ==
    /\ Free(r)
    /\ \E x \in AiTitles :
         req' = [req EXCEPT ![r] =
                   [Idle EXCEPT !.op = "get_ai_suggestions", !.pc = "ai_key",
                                !.vid = "v1", !.cur = x]]
    /\ started' = started + 1
    /\ UNCHANGED <<db, remote>>

\* generate_viral_titles, lines 14-20: without a key it returns at once.
ai_key(r) ==
    /\ req[r].pc = "ai_key"
    /\ \E k \in {"missing", "set"} :
         req' = [req EXCEPT ![r] =
                   IF k = "missing"
                   THEN ToLog([req[r] EXCEPT !.key = k, !.out = MissingKeyTitles],
                              "AI_SUGGESTIONS_GENERATED", 200)
                   ELSE [req[r] EXCEPT !.key = k, !.pc = "ai_post"]]
    /\ UNCHANGED <<db, remote, started>>

\* generate_viral_titles, lines 29-66: the completion call, then the parse;
\* whatever is raised inside the try ends in the except branch.
ai_post(r, texts) ==
    /\ req[r].pc = "ai_post"
    /\ LET rec == [req[r] EXCEPT !.calls = Append(@, Call("chat.completions", "prompt"))] IN
       \/ \E e \in AiErrors :
            req' = [req EXCEPT ![r] =
                      ToLog([rec EXCEPT !.raw = e, !.rev = "error", !.out = ErrorTitles(e)],
                            "AI_SUGGESTIONS_GENERATED", 200)]
       \/ \E content \in texts :
            req' = [req EXCEPT ![r] =
                      ToLog([rec EXCEPT !.raw = content, !.rev = "ok",
                                        !.out = ParseTitles(content, req[r].cur)],
                            "AI_SUGGESTIONS_GENERATED", 200)]
    /\ UNCHANGED <<db, remote, started>>

Next ==
    \/ ExternalEdit
    \/ \E r \in Reqs :
        \/ auth_callback(r)
        \/ cb_fetch_token(r)
        \/ cb_find(r)
        \/ cb_insert(r)
        \/ logout(r)
        \/ lo_revoke(r)
        \/ lo_delete(r)
        \/ list_videos(r)
        \/ lv_remote(r)
        \/ get_video(r)
        \/ gv_fetch(r)
        \/ update_metadata(r)
        \/ um_fetch(r)
        \/ um_update(r)
        \/ um_find(r)
        \/ um_commit(r)
        \/ get_comments(r)
        \/ gc_fetch(r)
        \/ add_comment(r)
        \/ ac_remote(r)
        \/ ac_insert(r)
        \/ remove_comment(r)
        \/ rc_find(r)
        \/ rc_remote(r)
        \/ rc_delete(r)
        \/ log_event(r)

Spec == Init /\ [][Next]_vars

\* Every endpoint of the application, and the token refresh of the client
\* library.  The endpoints that call no remote platform are served in the
\* first slot, one request at a time, next to whatever runs in the other
\* slots; they take their inputs from the small sets here, SpecNotes and
\* SpecAI run them over the large ones.
NextAll ==
    \/ Next
    \/ \E r \in Reqs : refresh(r)
    \/ \E r \in {1} :
        \/ get_ai_suggestions(r)
        \/ ai_key(r)
        \/ ai_post(r, SomeTexts)
        \/ get_notes(r, SomeTagParams)
        \/ create_note(r, SomeTagLists)
        \/ update_note(r, SomeTagLists)
        \/ un_commit(r)
        \/ delete_note(r)
        \/ dn_commit(r)
        \/ get_logs(r)
        \/ get_local_comments(r)

SpecAll == Init /\ [][NextAll]_vars

\* The suggestion adapter on its own: one request after the other in the first
\* slot, the completion text drawn from all of RawTexts.
NextAI ==
    \/ get_ai_suggestions(1)
    \/ ai_key(1)
    \/ ai_post(1, RawTexts)
    \/ log_event(1)

SpecAI == Init /\ [][NextAI]_vars

\* The tag filter on its own: the notes table is any table of up to MaxNotes
\* rows that create_note can have left behind, and requests only read it.
MaxNotes == 3       \* rows of notes the filter is run over

RECURSIVE NoteTablesOf(_)
NoteTablesOf(k) ==
    IF k = 0 THEN {{}}
    ELSE {t \cup {[id |-> k, video_id |-> v,
                   title |-> IF k = 1 THEN "T1" ELSE NoneVal, content |-> "c",
                   tags |-> g, created_at |-> k]} :
             t \in NoteTablesOf(k - 1), v \in Videos, g \in TagLists}

InitNotes ==
    /\ \E k \in 0..MaxNotes :
          /\ notes \in NoteTablesOf(k)
          /\ noteSeq = k
    /\ user_sessions = {}
    /\ comments = {}
    /\ logs = <<>>
    /\ sessSeq = 0
    /\ commentSeq = 0
    /\ ytVideo = [v \in Videos |-> NoSnippet]
    /\ ytComments = {}
    /\ ytDeleted = {}
    /\ ytSeq = 0
    /\ req = [r \in Reqs |-> Idle]
    /\ started = 0

NextNotes == get_notes(1, TagParams)

SpecNotes == InitNotes /\ [][NextNotes]_vars

\* ===================================================================== claims
\* The tables of the local database (the id sequences are not rows).
Tables == <<user_sessions, comments, notes, logs>>

\* Slot r took the step: its request moved, or a new request arrived in it.
Took(r) == req'[r] # req[r]

\* A new request was accepted into slot r in this step.
Arrives(r) == started' = started + 1 /\ \A q \in Reqs \ {r} : req'[q] = req[q]

\* ------------------------------------------------------------------- C1
C1_Unique ==
    \A s1 \in user_sessions, s2 \in user_sessions :
        s1.access_token = s2.access_token => s1 = s2

C1_Step ==
    \A r \in Reqs :
        (req[r].op = "auth_callback" /\ Took(r)) =>
            LET t == req[r].token
                stored == {s \in user_sessions : s.access_token = t} IN
            /\ req[r].pc = "cb_find" =>
                   req'[r].pc = (IF stored # {} THEN "log" ELSE "cb_insert")
            /\ IF req[r].pc = "cb_insert" /\ req'[r].pc = "log"
               THEN /\ stored = {}
                    /\ \E s \in user_sessions' :
                          /\ s \notin user_sessions
                          /\ s.access_token = t
                          /\ user_sessions' = user_sessions \cup {s}
               ELSE user_sessions' = user_sessions

\* C1: whatever /auth/callback requests run, and however they interleave, no
\* two user_sessions rows hold the same access_token; a callback that finds
\* its token stored inserts nothing, and a callback inserts only when the
\* token is not stored, and then exactly one row, holding that token.
C1_FindOrCreate == [](C1_Unique) /\ [][C1_Step]_vars

\* Two callbacks exchanged the same token, both were answered with the
\* redirect, and one row holds it.
C1_Witness ==
    \E r1 \in Reqs, r2 \in Reqs :
        /\ r1 # r2
        /\ req[r1].op = "auth_callback" /\ req[r2].op = "auth_callback"
        /\ req[r1].status = 307 /\ req[r2].status = 307
        /\ req[r1].token = req[r2].token
        /\ req[r1].found = 0 /\ req[r2].found = 1
        /\ Cardinality({s \in user_sessions : s.access_token = req[r1].token}) = 1

\* ------------------------------------------------------------------- C2
\* C2 (as claimed): a comment creation whose remote insert fails adds no
\* mirror row; one whose remote insert succeeds adds exactly one row, whose
\* youtube_comment_id is the id the remote call returned and whose
\* parent_youtube_id is the request's parent_id for a reply and null
\* otherwise.  (A commit that raises adds no row and is not held against the
\* claim here.)
C2_Step ==
    \A r \in Reqs :
        (req[r].op = "add_comment" /\ Took(r)) =>
            IF req[r].pc = "ac_insert" /\ req'[r].pc = "log"
            THEN \E c \in comments' :
                    /\ c \notin comments
                    /\ comments' = comments \cup {c}
                    /\ c.youtube_comment_id = req[r].ytid
                    /\ c.parent_youtube_id =
                          (IF req[r].calls[1].api = "comments.insert"
                           THEN req[r].parent ELSE NoneVal)
            ELSE comments' = comments

C2_MirrorRow == [][C2_Step]_vars

\* ------------------------------------------------------------------- C3
C3_Step ==
    \A r \in Reqs :
        (req[r].op = "remove_comment" /\ Took(r)) =>
            LET rows == {c \in comments : c.id = req[r].cid}
                del == [api |-> "comments.delete", arg |-> req[r].ytid] IN
            CASE req[r].pc = "rc_find" ->
                    /\ comments' = comments /\ req'[r].calls = <<>>
                    /\ rows = {} => req'[r].pc = "done" /\ req'[r].status = 404
                    /\ rows # {} => /\ req'[r].pc = "rc_remote"
                                    /\ \E c \in rows : req'[r].ytid = c.youtube_comment_id
              [] req[r].pc = "rc_remote" ->
                    /\ comments' = comments /\ req'[r].calls = <<del>>
                    /\ req'[r].pc = "done" => req'[r].status = 400
              [] req[r].pc = "rc_delete" ->
                    /\ req'[r].calls = <<del>>
                    /\ IF req'[r].pc = "log"
                       THEN \E c \in rows :
                               /\ c.youtube_comment_id = req[r].ytid
                               /\ comments' = comments \ {c}
                       ELSE comments' = comments
              [] req[r].pc = "log" ->
                    /\ comments' = comments /\ req'[r].calls = <<del>>
              [] OTHER -> comments' = comments

\* C3: DELETE /comments/{local_id} with no mirror row of that id issues no
\* remote call, changes no mirror row and answers 404; with such a row it
\* issues exactly one remote delete call, for that row's youtube_comment_id,
\* and, when it goes through, removes exactly that one row (a remote call or
\* a commit that raises ends the request with the mirror unchanged).
C3_DeleteSymmetry == [][C3_Step]_vars

\* A delete went through: one remote delete call, and the row it named is gone.
C3_Witness ==
    \E r \in Reqs :
        /\ req[r].op = "remove_comment" /\ req[r].status = 200
        /\ Len(req[r].calls) = 1 /\ req[r].calls[1].arg = req[r].ytid
        /\ {c \in comments : c.id = req[r].cid} = {}
        /\ req[r].ytid \in ytDeleted

\* ------------------------------------------------------------------- C4
WriteOps == {"update_metadata", "add_comment", "remove_comment"}
RemotePcs == {"um_fetch", "um_update", "ac_remote", "rc_remote"}
LocalPcs == {"um_commit", "ac_insert", "rc_delete", "log"}

C4_Step ==
    \A r \in Reqs :
        (req[r].op \in WriteOps /\ Took(r)) =>
            /\ req[r].pc \notin LocalPcs => Tables' = Tables
            /\ (req[r].pc \in RemotePcs /\ req'[r].pc = "done") =>
                   req'[r].status = 400

\* C4: a write operation (metadata update, comment, reply, comment delete)
\* whose remote call fails is answered with an error (400) and has written
\* nothing: no step of the request up to and including the failed remote call
\* changes a row of notes, comments, logs or user_sessions.
C4_NoLocalWriteOnRemoteFailure == [][C4_Step]_vars

\* A comment delete was refused by the platform after the row was found.
C4_Witness ==
    \E r \in Reqs :
        /\ req[r].op = "remove_comment" /\ req[r].pc = "done"
        /\ req[r].status = 400 /\ req[r].calls # <<>>
        /\ {c \in comments : c.id = req[r].cid} # {}

\* ------------------------------------------------------------------- C5
\* The ids successful remote creation calls have returned so far.
Issued == {YtIds[i] : i \in 1..ytSeq}

\* C5 (as claimed): in every reachable state every mirror row's
\* youtube_comment_id was returned by a successful remote creation call and
\* names a comment this backend has not deleted on the platform.
C5_NeverAhead ==
    \A c \in comments :
        c.youtube_comment_id \in Issued /\ c.youtube_comment_id \notin ytDeleted

C5_State ==
    /\ \A c \in comments : c.youtube_comment_id \in Issued
    /\ \A r \in Reqs :
          (req[r].op = "remove_comment" /\ (req[r].pc = "log" \/ req[r].status = 200)) =>
              \A c \in comments : c.youtube_comment_id # req[r].ytid

C5_Step ==
    \A c \in comments' :
        c.youtube_comment_id \in ytDeleted' =>
            /\ c \in comments
            /\ \/ c.youtube_comment_id \in ytDeleted
               \/ \E r \in Reqs :
                     /\ req[r].op = "remove_comment" /\ req[r].pc = "rc_remote"
                     /\ req[r].ytid = c.youtube_comment_id /\ req[r].found = c.id
                     /\ req'[r].pc = "rc_delete"

\* C5 (amended): every mirror row's youtube_comment_id was returned by a
\* successful remote creation call, and no row is inserted for a comment this
\* backend has deleted; a row comes to name a deleted comment only by the
\* remote step of a remove_comment for that very row, which runs before the
\* local step, and the row is gone once that local step has gone through.
C5_AheadOnlyWhileDeleting == [](C5_State) /\ [][C5_Step]_vars

\* Between the two steps of a delete: the platform has dropped the comment,
\* the mirror still holds its row.
C5_Witness ==
    \E r \in Reqs :
        /\ req[r].op = "remove_comment" /\ req[r].pc = "rc_delete"
        /\ \E c \in comments :
              c.youtube_comment_id = req[r].ytid /\ c.youtube_comment_id \in ytDeleted

\* ------------------------------------------------------------------- C6
\* C6 (as claimed): the update call of update_metadata leaves the video with
\* the new title and description and every other snippet field at its value
\* before the update, whatever another writer did since the fetch.
C6_OthersKept ==
    [][\A r \in Reqs :
          (req[r].pc = "um_update" /\ req'[r].pc = "um_find") =>
              /\ ytVideo'[req[r].vid].title = req[r].title
              /\ ytVideo'[req[r].vid].description = req[r].desc
              /\ ytVideo'[req[r].vid].categoryId = ytVideo[req[r].vid].categoryId]_vars

C6_Step ==
    \A r \in Reqs :
        (req[r].op = "update_metadata" /\ Took(r)) =>
            /\ (req[r].pc = "um_fetch" /\ req'[r].pc = "um_update") =>
                   req'[r].snip = [title |-> req[r].title, description |-> req[r].desc,
                                   categoryId |-> ytVideo[req[r].vid].categoryId]
            /\ (req[r].pc = "um_update" /\ req'[r].pc = "um_find") =>
                   /\ ytVideo'[req[r].vid] = req[r].snip
                   /\ \A v \in Videos \ {req[r].vid} : ytVideo'[v] = ytVideo[v]
            /\ req[r].pc \notin {"um_update"} => ytVideo' = ytVideo
            /\ (req[r].pc = "um_update" /\ req'[r].pc = "done") => ytVideo' = ytVideo

\* C6 (amended): after a successful update_metadata the video shows the new
\* title and description and every other snippet field at the value this
\* operation fetched (videos.list, in the same call) just before: a field
\* nobody changed in between keeps its value, a change another writer made
\* between the fetch and the update call is overwritten by the fetched value.
C6_FetchedSnippetWritten == [][C6_Step]_vars

\* Two updates of one video ran side by side and both went through: the
\* video shows what the later one wrote, its title on the snippet it fetched.
C6_Witness ==
    \E r \in Reqs, q \in Reqs :
        /\ r # q
        /\ req[r].op = "update_metadata" /\ req[r].pc = "um_find"
        /\ req[q].op = "update_metadata" /\ req[q].pc = "um_find"
        /\ req[r].vid = req[q].vid /\ req[r].title # req[q].title
        /\ ytVideo[req[r].vid] = req[r].snip
        /\ ytVideo[req[r].vid].title = req[r].title

\* ------------------------------------------------------------------- C7
BearerOps == {"logout", "list_videos", "get_video", "update_metadata",
              "get_comments", "add_comment", "remove_comment"}
SessionOps == BearerOps \ {"logout"}

\* What C7 asks of the arrival of a request of one of the operations ops.
C7_Arrival(ops) ==
    \A r \in Reqs :
        (Arrives(r) /\ req'[r].op \in BearerOps) =>
            LET h == req'[r].header
                bad == h = NoHeader \/ h.scheme # "Bearer "
                unknown == {s \in user_sessions : s.access_token = h.cred} = {} IN
            /\ bad => /\ req'[r].pc = "done" /\ req'[r].status = 401
                      /\ req'[r].sq = 0 /\ req'[r].calls = <<>> /\ req'[r].writes = 0
            /\ (~bad /\ unknown /\ req'[r].op \in ops) =>
                      /\ req'[r].pc = "done" /\ req'[r].status = 401
                      /\ req'[r].calls = <<>> /\ req'[r].writes = 0
                      /\ Tables' = Tables

\* C7 (as claimed): on every bearer-protected endpoint, logout included, a
\* missing or non-"Bearer " header is answered 401 before the store is read,
\* and a token that matches no session row is answered 401, with no remote
\* call and no local write in either case.
C7_AllBearer == [][C7_Arrival(BearerOps)]_vars

\* C7 (amended): the header part holds on every bearer-protected endpoint;
\* the unknown-token part holds on the six endpoints that resolve the session
\* (list videos, get video, update metadata, get comments, post comment,
\* delete comment) and not on logout, which never reads the store before it
\* calls the provider.  A request answered 401 has issued no remote call and
\* written no row.
C7_Unauthenticated ==
    /\ [][C7_Arrival(SessionOps)]_vars
    /\ [](\A r \in Reqs : req[r].status = 401 =>
              req[r].pc = "done" /\ req[r].calls = <<>> /\ req[r].writes = 0)

\* A well-formed token that matches none of the stored sessions was turned
\* away after one look at the store.
C7_Witness ==
    \E r \in Reqs :
        /\ req[r].op \in SessionOps /\ req[r].status = 401
        /\ req[r].header.scheme = "Bearer " /\ req[r].sq = 1
        /\ user_sessions # {}
        /\ \A s \in user_sessions : s.access_token # req[r].token

\* ------------------------------------------------------------------- C8
\* Slot q holds a logout that was answered 200, and no row holds its token.
LoggedOut(q) ==
    /\ req[q].op = "logout" /\ req[q].status = 200
    /\ \A s \in user_sessions : s.access_token # req[q].token

C8_Delete ==
    \A r \in Reqs :
        (req[r].pc = "lo_delete" /\ req'[r].pc = "log") =>
            \A s \in user_sessions' : s.access_token # req[r].token

C8_OnlyCallbackStores ==
    \A s \in user_sessions' :
        s \notin user_sessions =>
            \E r \in Reqs :
                /\ req[r].op = "auth_callback" /\ req[r].pc = "cb_insert"
                /\ req[r].token = s.access_token /\ Took(r)

C8_Later(ops) ==
    \A r \in Reqs, q \in Reqs :
        (q # r /\ LoggedOut(q) /\ Arrives(r) /\ req'[r].op \in ops
              /\ req'[r].token = req[q].token) =>
            req'[r].pc = "done" /\ req'[r].status = 401

\* C8 (as claimed): the delete of a logout leaves no row with its token, only
\* a callback stores a token, and after a logout that was answered 200 every
\* bearer-protected request presenting that token is answered 401 as long as
\* no row holds it.
C8_AllRejected == [][C8_Delete /\ C8_OnlyCallbackStores /\ C8_Later(BearerOps)]_vars

\* C8 (amended): as claimed for the six endpoints that resolve the session; a
\* further POST /logout presenting the token is not rejected.
C8_SessionGone == [][C8_Delete /\ C8_OnlyCallbackStores /\ C8_Later(SessionOps)]_vars

\* A logout was answered 200 and a later request with its token got 401.
C8_Witness ==
    \E r \in Reqs, q \in Reqs :
        /\ q # r /\ LoggedOut(q) /\ req[q].writes = 2
        /\ req[r].op \in SessionOps /\ req[r].token = req[q].token
        /\ req[r].status = 401

\* ------------------------------------------------------------------- C9
\* C9 (as claimed): a logout deletes a session row only after its revocation
\* request has succeeded; a logout whose revocation did not succeed leaves
\* the row in place.
C9_DeleteOnlyAfterRevocation ==
    [][\A r \in Reqs :
          (req[r].op = "logout" /\ Took(r) /\ user_sessions' # user_sessions) =>
              req[r].rev = "ok"]_vars

\* ------------------------------------------------------------------ C10
RemoteCallPcs == {"lv_remote", "gv_fetch", "um_fetch", "um_update", "gc_fetch",
                  "ac_remote", "rc_remote"}

\* C10 (as claimed): a remote platform call that raises inside a
\* bearer-protected operation ends the request with 400 (a video that is
\* not there is the 404 of get one video, not an exception), and no remote
\* call is issued twice by one request.
C10_Upstream400 ==
    [][\A r \in Reqs :
          (Took(r) /\ req[r].pc \in RemoteCallPcs) =>
              /\ req'[r].pc = "done" =>
                    \/ req'[r].status = 400
                    \/ /\ req[r].op = "get_video" /\ req'[r].status = 404
                       /\ ytVideo[req[r].vid] = NoSnippet
              /\ \A i \in 1..Len(req'[r].calls), j \in 1..Len(req'[r].calls) :
                    req'[r].calls[i] = req'[r].calls[j] => i = j]_vars

\* ------------------------------------------------------------------ C11
\* C11: the logs table is append-only: whatever the requests, to whatever
\* endpoint, every step leaves the rows that were there where they were and as
\* they were, and at most adds rows after them; so the table of one state is a
\* prefix of the table of every later state.
C11_AppendOnly ==
    [][/\ Len(logs') >= Len(logs)
       /\ SubSeq(logs', 1, Len(logs)) = logs]_vars

\* GET /logs read a table of two events, both still there.
C11_Witness ==
    \E r \in Reqs :
        /\ req[r].op = "get_logs" /\ req[r].status = 200 /\ req[r].found = 2
        /\ Len(logs) = 2

\* ------------------------------------------------------------------ C12
StateChangingOps == {"auth_callback", "logout", "update_metadata", "add_comment",
                     "remove_comment", "create_note", "update_note", "delete_note"}

\* The pc at which each operation commits its own local effect (create_note
\* commits in the step it arrives in; a callback that finds its session
\* stored has nothing to commit).
C12_CommitPcs(op) ==
    CASE op = "auth_callback" -> {"cb_find", "cb_insert"}
      [] op = "logout" -> {"lo_delete"}
      [] op = "update_metadata" -> {"um_commit"}
      [] op = "add_comment" -> {"ac_insert"}
      [] op = "remove_comment" -> {"rc_delete"}
      [] op = "create_note" -> {"idle", "done"}
      [] op = "update_note" -> {"un_commit"}
      [] op = "delete_note" -> {"dn_commit"}
      [] OTHER -> {}

C12_Succeeded(rec) == rec.pc = "done" /\ rec.status \in {200, 307}

C12_Step ==
    /\ logs' # logs =>
          \E r \in Reqs :
              /\ req[r].pc = "log" /\ C12_Succeeded(req'[r])
              /\ logs' = Append(logs, req[r].act)
              /\ \A q \in Reqs \ {r} : req'[q] = req[q]
    /\ \A r \in Reqs :
          (Took(r) /\ req'[r].op \in StateChangingOps) =>
              /\ (C12_Succeeded(req'[r]) /\ ~C12_Succeeded(req[r])) =>
                     req[r].pc = "log" /\ logs' = Append(logs, req[r].act)
              /\ (req'[r].pc = "log" /\ req[r].pc # "log") =>
                     /\ req[r].pc \in C12_CommitPcs(req'[r].op)
                     /\ logs' = logs
              /\ (req'[r].pc = "done" /\ ~C12_Succeeded(req'[r])) => logs' = logs

\* C12: a state-changing operation (callback, logout, metadata update,
\* comment or reply, comment delete, note create, update, delete) that is
\* answered with success has appended exactly one audit event, in its last
\* step, which comes after the step that committed its own local effect; an
\* operation that is answered with an error has appended none.
C12_OneEventAfterCommit == [][C12_Step]_vars

\* A note was created and deleted again: two events, in that order.
C12_Witness ==
    \E r \in Reqs :
        /\ req[r].op = "delete_note" /\ req[r].status = 200 /\ req[r].writes = 2
        /\ logs = <<"NOTE_CREATED", "NOTE_DELETED">>
        /\ \A n \in notes : n.id # req[r].nid

\* ------------------------------------------------------------------ C13
ReadOps == {"list_videos", "get_video", "get_comments"}
ReadApis == {"channels.list", "playlistItems.list", "videos.list", "commentThreads.list"}

C13_Step ==
    \A r \in Reqs :
        (Took(r) /\ req'[r].op \in ReadOps /\ req'[r].pc # "idle") =>
            /\ user_sessions' = user_sessions
            /\ notes' = notes
            /\ comments' = comments
            /\ remote' = remote
            /\ \A i \in 1..Len(req'[r].calls) : req'[r].calls[i].api \in ReadApis
            /\ IF req[r].pc = "log" /\ req'[r].status = 200
               THEN logs' = Append(logs, req[r].act)
               ELSE logs' = logs
            /\ (req'[r].pc = "done" /\ req'[r].status = 200) => req[r].pc = "log"

\* C13: list videos, get one video and get comments call only list methods
\* of the platform and leave user_sessions, notes and comments (and the
\* platform) as they were; the one local write of such a request is the
\* audit event it appends when it succeeds.
C13_ReadsWriteOnlyAudit == [][C13_Step]_vars

\* The comments of a video were fetched: one list call, one audit event.
C13_Witness ==
    \E r \in Reqs :
        /\ req[r].op = "get_comments" /\ req[r].status = 200
        /\ Len(req[r].calls) = 1 /\ req[r].writes = 1
        /\ logs # <<>> /\ logs[Len(logs)] = "COMMENTS_FETCHED"

\* ------------------------------------------------------------------ C14
\* s with its letters folded to lower case.
C14_Fold(s) == [i \in 1..Len(s) |-> IF s[i] = "F" THEN "f" ELSE s[i]]

\* s without the blanks at its two ends.
C14_Trim(s) ==
    LET ns == {i \in 1..Len(s) : s[i] # " "} IN
    IF ns = {} THEN <<>>
    ELSE SubSeq(s, CHOOSE i \in ns : \A j \in ns : i <= j,
                   CHOOSE i \in ns : \A j \in ns : j <= i)

C14_SameIgnoringCase(a, b) == C14_Fold(a) = C14_Fold(b)

C14_SameTrimmed(a, b) == C14_Fold(C14_Trim(a)) = C14_Fold(C14_Trim(b))

\* The answer of the get_notes arriving in slot r is exactly the set want, each
\* row once, the most recently created first.
C14_Returns(r, want) ==
    LET rows == req'[r].rows IN
    /\ {rows[i] : i \in 1..Len(rows)} = want
    /\ Len(rows) = Cardinality(want)
    /\ \A i \in 1..Len(rows), j \in 1..Len(rows) :
          i < j => rows[i].created_at >= rows[j].created_at

\* C14 (as claimed): get_notes(video_id, tag=T) returns exactly the notes of
\* video_id one of whose tags equals T when case is ignored (a tag that only
\* contains T does not count, a note without tags is left out, notes of other
\* videos are left out), the most recently created first.
C14_ExactTagFilter ==
    [][\A r \in Reqs :
          (Arrives(r) /\ req'[r].op = "get_notes" /\ req'[r].search = NoneVal
                /\ req'[r].tag # <<NoneVal>>) =>
              C14_Returns(r, {n \in notes :
                                 /\ n.video_id = req'[r].vid
                                 /\ \E i \in 1..Len(n.tags) :
                                       C14_SameIgnoringCase(n.tags[i], req'[r].tag)})]_vars

C14_Step ==
    \A r \in Reqs :
        (Arrives(r) /\ req'[r].op = "get_notes" /\ req'[r].search = NoneVal) =>
            /\ notes' = notes
            /\ IF req'[r].tag \in {<<NoneVal>>, <<>>}
               THEN C14_Returns(r, {n \in notes : n.video_id = req'[r].vid})
               ELSE C14_Returns(r, {n \in notes :
                                      /\ n.video_id = req'[r].vid
                                      /\ \E i \in 1..Len(n.tags) :
                                            C14_SameTrimmed(n.tags[i], req'[r].tag)})

\* C14 (amended): with a non-empty T, get_notes(video_id, tag=T) returns
\* exactly the notes of video_id one of whose tags equals T once both have
\* lost the whitespace at their ends and their case (so " Foo " matches
\* "foo", "foobar" does not, a note without tags is left out), the most
\* recently created first; with T empty no tag filter is applied and every
\* note of video_id is returned.
C14_TrimmedTagFilter == [][C14_Step]_vars

\* Three notes of one video: asked for "f", the two whose tag is "f " and "F"
\* came back, newest first, and the one tagged "ff" did not.
C14_Witness ==
    \E r \in Reqs :
        /\ req[r].op = "get_notes" /\ req[r].tag = <<"f">> /\ req[r].search = NoneVal
        /\ Len(req[r].rows) = 2
        /\ req[r].rows[1].created_at > req[r].rows[2].created_at
        /\ \E i \in 1..2 : req[r].rows[i].tags = << <<"f", " ">> >>
        /\ \E n \in notes : n.video_id = req[r].vid /\ n.tags = << <<"f", "f">> >>

\* ------------------------------------------------------------------ C15
C15_Step ==
    \A r \in Reqs :
        (req[r].op = "get_ai_suggestions" /\ Took(r)
              /\ req[r].pc \in {"ai_key", "ai_post"}) =>
            /\ req'[r].pc \in {"ai_post", "log"}
            /\ req'[r].pc = "ai_post" =>
                  req'[r].key = "set" /\ req'[r].calls = <<>>
            /\ req'[r].pc = "log" =>
                  /\ req'[r].ret = 200
                  /\ DOMAIN req'[r].out = 1..3
                  /\ req'[r].key = "missing" <=> req'[r].calls = <<>>
                  /\ Len(req'[r].calls) <= 1

\* C15: generate_viral_titles never raises and hands back a sequence of
\* exactly 3 strings on every path: without an API key (and then before any
\* network call is made), when the completion call fails (timeout, non-2xx
\* status, malformed body), when the completion text is malformed and when it
\* is well-formed.
C15_AlwaysThree ==
    /\ [][C15_Step]_vars
    /\ [](\A r \in Reqs :
             (req[r].op = "get_ai_suggestions" /\ req[r].pc = "log") =>
                 Len(req[r].out) = 3)

\* The completion call failed and the request was still answered 200 with
\* three strings.
C15_Witness ==
    \E r \in Reqs :
        /\ req[r].op = "get_ai_suggestions" /\ req[r].status = 200
        /\ req[r].key = "set" /\ req[r].rev = "error"
        /\ Len(req[r].calls) = 1 /\ Len(req[r].out) = 3

\* ------------------------------------------------------------------ C16
C16_Pipes(s) == {i \in 1..Len(s) : s[i] = "|"}

\* Position of the n-th "|" of s; 0 before the text, Len(s) + 1 after it.
C16_Nth(s, n) ==
    IF n = 0 THEN 0
    ELSE IF Cardinality(C16_Pipes(s)) < n THEN Len(s) + 1
    ELSE CHOOSE i \in C16_Pipes(s) : Cardinality({j \in C16_Pipes(s) : j < i}) = n - 1

\* s without the blanks at its two ends.
C16_Trim(s) ==
    LET ns == {i \in 1..Len(s) : s[i] # " "} IN
    IF ns = {} THEN <<>>
    ELSE SubSeq(s, CHOOSE i \in ns : \A j \in ns : i <= j,
                   CHOOSE i \in ns : \A j \in ns : j <= i)

C16_Step ==
    \A r \in Reqs :
        (req[r].pc = "ai_post" /\ Took(r) /\ req'[r].rev = "ok") =>
            LET text == req'[r].raw
                X == req[r].cur IN
            IF Cardinality(C16_Pipes(text)) < 2
            THEN req'[r].out =
                   << <<"You Won't Believe What Happened with ">> \o X,
                      <<"The Truth About ">> \o X \o <<" Nobody Tells You">>,
                      <<"I Tried ">> \o X \o <<" for 30 Days - Here's What Happened">> >>
            ELSE /\ Len(req'[r].out) = 3
                 /\ \A k \in 1..3 :
                       req'[r].out[k] =
                          C16_Trim(SubSeq(text, C16_Nth(text, k - 1) + 1,
                                                C16_Nth(text, k) - 1))

\* C16: a completion text that splits on "|" into fewer than 3 segments gives
\* the fixed 3-item fallback built from the current title and none of the
\* parsed segments; one that splits into 3 or more gives the first 3 segments,
\* trimmed, in order.
C16_FallbackOrFirstThree == [][C16_Step]_vars

\* A completion text of two segments was answered with the fallback.
C16_Witness ==
    \E r \in Reqs :
        /\ req[r].op = "get_ai_suggestions" /\ req[r].rev = "ok"
        /\ Cardinality(C16_Pipes(req[r].raw)) = 1
        /\ req[r].raw[1] = "a" /\ req[r].raw[Len(req[r].raw)] = "a"
        /\ req[r].out[1] = <<"You Won't Believe What Happened with ">> \o req[r].cur

\* ------------------------------------------------------------------ C17
C17_Step ==
    /\ \A s \in user_sessions' :
          \/ s \in user_sessions
          \/ /\ \A old \in user_sessions : old.id # s.id
             /\ \E r \in Reqs :
                   /\ req[r].op = "auth_callback" /\ req[r].pc = "cb_insert" /\ Took(r)
                   /\ user_sessions' = user_sessions \cup {s}
    /\ \A s \in user_sessions :
          \/ /\ s \in user_sessions'
             /\ {x \in user_sessions' : x.access_token = s.access_token} = {s}
          \/ \E r \in Reqs :
                /\ req[r].op = "logout" /\ req[r].pc = "lo_delete" /\ Took(r)
                /\ req[r].token = s.access_token

\* C17: a user_sessions row is never modified: a step either leaves a row as
\* it is, every field of it, and findable by its access_token, or is the
\* delete of a logout for that token; a row that appears is the one row a
\* callback inserts.  Looking a session up, calling the platform through it
\* and a token refresh inside the client library write nothing to the table.
C17_SessionRowsImmutable == [][C17_Step]_vars

\* A request whose client had refreshed its access token was answered 200,
\* and the row it was resolved from still holds the original token.
C17_Witness ==
    \E r \in Reqs :
        /\ req[r].status = 200 /\ req[r].calls # <<>>
        /\ req[r].creds # req[r].token
        /\ \E s \in user_sessions :
              s.access_token = req[r].token /\ s.refresh_token = "r1"

\* ------------------------------------------------------------------ C18
\* C18 (as claimed): the local step of a metadata update that goes through is
\* an upsert: when notes holds no row of the video, exactly one row is added,
\* for that video and with the new title; otherwise exactly one row of the
\* video has its title set to the new title and no row is added; no other row
\* is added, changed or removed; also when two updates of one video interleave.
C18_Upsert ==
    [][\A r \in Reqs :
          (req[r].pc = "um_commit" /\ req'[r].pc = "log") =>
              LET mine == {n \in notes : n.video_id = req[r].vid} IN
              IF mine = {}
              THEN \E n \in notes' :
                      /\ n \notin notes /\ notes' = notes \cup {n}
                      /\ n.video_id = req[r].vid /\ n.title = req[r].title
              ELSE \E n \in mine :
                      notes' = (notes \ {n}) \cup {[n EXCEPT !.title = req[r].title]}]_vars
====
